---- MODULE Spec2Model ----
(***************************************************************************)
(* A model of the two Cython kernels of advanced-gil-mitigation:           *)
(*   image_cython.pyx  grayscale_cython  (OpenMP prange over the rows)     *)
(*   cython_demo.pyx   sum_of_squares    (C int loop, long long total)     *)
(* C doubles and 64-bit integers do not fit TLC's integers, so both are    *)
(* carried as four little-endian limbs of 16 bits.                         *)
(***************************************************************************)
EXTENDS Integers, Sequences, FiniteSets, TLC

\* ------------------------------------------------------------------------
\* Bounds of the model and the inputs that are enumerated
\* ------------------------------------------------------------------------
MaxRows == 4

MaxCols == 2

MaxThreads == 3

MaxN == 3

LoopCap == 46341

\* The pixel values images are built from: black, the spec's worked example,
\* white, and a pixel whose weighted sum is the integer 45 in the reals but
\* falls just below 45 in double arithmetic.
Pixels == << <<0, 0, 0>>, <<10, 20, 30>>, <<255, 255, 255>>, <<0, 72, 24>> >>

\* Prior contents of a destination buffer (np.zeros, or stale bytes).
Fills == {0, 200}

\* The arguments sum_of_squares is called with: small ones, the last one
\* whose squares all fit a C int, the first one with a square that does
\* not, and the largest C int.
SumInputs == (0..MaxN) \cup {46340, 46341, 2147483647}

\* ------------------------------------------------------------------------
\* Non-negative integers as four 16-bit limbs, least significant first; the
\* top limb holds whatever exceeds 64 bits, so sums and products are exact.
\* ------------------------------------------------------------------------
Base == 2^16

BigZero == <<0, 0, 0, 0>>

ToBig(v) == <<v % Base, v \div Base, 0, 0>>

\* a + b
BigAdd(a, b) ==
    LET s1 == a[1] + b[1]
        s2 == a[2] + b[2] + (s1 \div Base)
        s3 == a[3] + b[3] + (s2 \div Base)
        s4 == a[4] + b[4] + (s3 \div Base)
    IN  <<s1 % Base, s2 % Base, s3 % Base, s4>>

\* a * d, for a small factor 0 <= d < 2^14
BigMulSmall(a, d) ==
    LET p1 == a[1] * d
        p2 == a[2] * d + (p1 \div Base)
        p3 == a[3] * d + (p2 \div Base)
        p4 == a[4] * d + (p3 \div Base)
    IN  <<p1 % Base, p2 % Base, p3 % Base, p4>>

LimbBits(v) == CHOOSE k \in 0..30 : v < 2^k /\ (k = 0 \/ v >= 2^(k-1))

\* the low 64 bits of a: the value a C long long keeps
Wrap64(a) == <<a[1], a[2], a[3], a[4] % Base>>

\* number of significant bits of a
BigBits(a) ==
    IF a[4] > 0 THEN 48 + LimbBits(a[4])
    ELSE IF a[3] > 0 THEN 32 + LimbBits(a[3])
    ELSE IF a[2] > 0 THEN 16 + LimbBits(a[2])
    ELSE LimbBits(a[1])

\* ------------------------------------------------------------------------
\* IEEE-754 double arithmetic on the values the kernel can produce.
\* Every double in play is a non-negative multiple of 2^-56 (0.114 has
\* exponent -4, so its unit in the last place is 2^-56) and is carried as
\* the integer  value * 2^56.
\* ------------------------------------------------------------------------

\* Round an exact value to 53 significant bits, ties to even.  The bits
\* dropped (fewer than 16) are all in the lowest limb.
RoundDouble(a) ==
    LET nb == BigBits(a)
    IN  IF nb <= 53 THEN a
        ELSE LET s    == nb - 53
                 r    == a[1] % 2^s
                 half == 2^(s-1)
                 odd  == ((a[1] \div 2^s) % 2) = 1
                 down == <<a[1] - r, a[2], a[3], a[4]>>
             IN  IF r > half \/ (r = half /\ odd)
                 THEN BigAdd(down, ToBig(2^s))
                 ELSE down

\* The double literals 0.299, 0.587 and 0.114, times 2^56.
W_R == <<1572, 38273, 35651, 76>>

W_G == <<33552, 51904, 17825, 150>>

\* Faulty variant of W_B: the literal mistyped as 0.144, so that the three
\* weights no longer sum to 1.
W_B_Typo == <<48758, 6815, 56623, 36>>

W_B == <<30409, 40894, 12058, 29>>

\* unsigned char * double
FMul(w, s) == RoundDouble(BigMulSmall(w, s))

\* double + double
FAdd(a, b) == RoundDouble(BigAdd(a, b))

\* R*0.299 + G*0.587 + B*0.114, evaluated left to right
LumaSum(p) == FAdd(FAdd(FMul(W_R, p[1]), FMul(W_G, p[2])), FMul(W_B, p[3]))

\* int(double): truncation toward zero, i.e. the integer part
TruncToInt(a) == a[4] \div 2^8

\* the store into an unsigned char element
ToUChar(v) == v % 256

\* Faulty variant of GrayValue: int() applied to each product instead of
\* once to the sum.
GrayValue_PerChannel(p) ==
    ToUChar(TruncToInt(FMul(W_R, p[1])) + TruncToInt(FMul(W_G, p[2]))
              + TruncToInt(FMul(W_B, p[3])))

\* the value assigned by lines 22-26 for one source pixel
GrayValue(p) == ToUChar(TruncToInt(LumaSum(p)))

\* ------------------------------------------------------------------------
\* State
\* ------------------------------------------------------------------------
VARIABLES
    source_image,   \* the caller's colour buffer: pixel index -> <<R, G, B>>
    srcShape,       \* <<rows, columns>> of source_image
    dest_image,     \* the caller's grey buffer, flat and C-contiguous
    dstShape,       \* <<rows, columns>> of dest_image
    height, width,  \* the cdef int locals of grayscale_cython
    pc,             \* "idle", "entered", "parallel", "returned", or, once a
                    \* store has left the buffer, "undefined" / "crashed"
    result,         \* what the call handed back: "pending" or "None"
    nthreads,       \* size of the OpenMP team of the parallel region
    lo, hi,         \* the row chunk [lo[t], hi[t]) of team member t
    y, x,           \* the loop variables of team member t
    writes,         \* history: number of stores to each destination element
    writers,        \* history: team members that stored to each element
    outside,        \* history: a store used an index outside dest's extent
    corrupt,        \* a store landed in memory that is neither buffer
    source0, dest0, \* history: the buffers as they were when the call began
    prev,           \* history: the previous call (its output, the prior
                    \* contents it was given, whether one thread ran it),
                    \* or <<>>
    n, i, total,    \* sum_of_squares: argument, loop counter, accumulator
    spc,            \* sum_of_squares: "idle", "loop", "returned"
    boundWrapped,   \* sum_of_squares: n + 1 wrapped around
    overflowed      \* sum_of_squares: a C int computation overflowed

grayVars == <<source_image, srcShape, dest_image, dstShape, height, width, pc,
              result, nthreads, lo, hi, y, x, writes, writers, outside,
              corrupt, source0, dest0, prev>>

sumVars == <<n, i, total, spc, boundWrapped, overflowed>>

vars == <<grayVars, sumVars>>

Workers == 1..MaxThreads

Shapes == (0..MaxRows) \X (0..MaxCols)

SrcSize == srcShape[1] * srcShape[2]

DestSize == dstShape[1] * dstShape[2]

\* source_image[y, x, :] : the pixel at row r, column c
SrcIndex(r, c) == r * srcShape[2] + c

\* dest_image[y, x] with boundscheck(False): base + y*stride + x, no check
DestOffset(r, c) == r * dstShape[2] + c

InExtent(r, c) == r < dstShape[1] /\ c < dstShape[2]

Min(a, b) == IF a < b THEN a ELSE b

\* ------------------------------------------------------------------------
\* schedule='static' without a chunk size: one contiguous chunk per team
\* member.  "balanced" is the split of libgomp and of libomp's default,
\* "greedy" the ceil(n/T) split libomp also offers.
\* ------------------------------------------------------------------------
\* Faulty variant of ChunkBalanced: the remainder rows are given to nobody.
ChunkBalanced_NoRemainder(rows, T, k) ==
    LET q == rows \div T
    IN  <<q * k, q * k + q>>

ChunkBalanced(rows, T, k) ==
    LET q == rows \div T
        r == rows % T
    IN  IF k < r THEN <<(q + 1) * k, (q + 1) * k + q + 1>>
                 ELSE <<q * k + r, q * k + r + q>>

ChunkGreedy(rows, T, k) ==
    LET c     == (rows + T - 1) \div T
        first == Min(rows, k * c)
    IN  <<first, Min(rows, first + c)>>

\* Faulty variant of StaticChunk: the chunk's upper bound taken inclusive,
\* so that neighbouring chunks share a row.
StaticChunk_Overlap(s, rows, T, k) ==
    LET c == IF s = "balanced" THEN ChunkBalanced(rows, T, k)
                               ELSE ChunkGreedy(rows, T, k)
    IN  <<c[1], Min(rows, c[2] + 1)>>

StaticChunk(s, rows, T, k) ==
    IF s = "balanced" THEN ChunkBalanced(rows, T, k) ELSE ChunkGreedy(rows, T, k)

\* Faulty variant of StoreAt: += in place of =.
StoreAt_Accumulate(buf, off, v) == [buf EXCEPT ![off] = (@ + v) % 256]

\* the assignment  dest_image[y, x] = v
StoreAt(buf, off, v) == [buf EXCEPT ![off] = v]

\* Faulty variant of AllDone: the region is left as soon as one member has
\* finished (a loop marked nowait).
AllDone_NoJoin == \E t \in 1..nthreads : y[t] >= hi[t]

\* the implicit barrier that ends the parallel region
AllDone == \A t \in 1..nthreads : y[t] >= hi[t]

\* ------------------------------------------------------------------------
\* Initial states
\* ------------------------------------------------------------------------
NoChunks == [t \in Workers |-> 0]

\* an image of one colour, Pixels[1], or one that runs through Pixels
\* cyclically from Pixels[seed]
PatternImage(size, seed) ==
    [k \in 0..(size - 1) |->
        IF seed = 0 THEN Pixels[1] ELSE Pixels[((seed - 1 + k) % Len(Pixels)) + 1]]

FilledBuffer(size, fill) == [k \in 0..(size - 1) |-> fill]

\* the destination shapes tried with a source shape: the same shape, or one
\* row or one column more or less
Near(s, d) ==
    \/ d[1] - s[1] \in {-1, 0, 1} /\ d[2] = s[2]
    \/ d[2] - s[2] \in {-1, 0, 1} /\ d[1] = s[1]

SumIdle ==
    /\ n = 0
    /\ i = 1
    /\ total = BigZero
    /\ spc = "idle"
    /\ boundWrapped = FALSE
    /\ overflowed = FALSE

GrayInit(shapes, seeds, fills) ==
    /\ srcShape \in shapes
    /\ dstShape \in {d \in shapes : Near(srcShape, d)}
    /\ \E seed \in seeds :
          source_image = PatternImage(srcShape[1] * srcShape[2], seed)
    /\ \E fill \in fills :
          dest_image = FilledBuffer(dstShape[1] * dstShape[2], fill)
    /\ height = 0
    /\ width = 0
    /\ pc = "idle"
    /\ result = "pending"
    /\ nthreads = 0
    /\ lo = NoChunks
    /\ hi = NoChunks
    /\ y = NoChunks
    /\ x = NoChunks
    /\ writes = [k \in DOMAIN dest_image |-> 0]
    /\ writers = [k \in DOMAIN dest_image |-> {}]
    /\ outside = FALSE
    /\ corrupt = FALSE
    /\ source0 = source_image
    /\ dest0 = dest_image
    /\ prev = <<>>

Init ==
    /\ GrayInit(Shapes, 0..Len(Pixels), Fills)
    /\ SumIdle

\* ------------------------------------------------------------------------
\* grayscale_cython
\* ------------------------------------------------------------------------

\* lines 7-14: the call binds the two memoryviews and reads the source shape
Enter ==
    /\ pc = "idle"
    /\ height' = srcShape[1]
    /\ width' = srcShape[2]
    /\ source0' = source_image
    /\ dest0' = dest_image
    /\ pc' = "entered"
    /\ UNCHANGED <<source_image, srcShape, dest_image, dstShape, result,
                   nthreads, lo, hi, y, x, writes, writers, outside, corrupt,
                   prev>>
    /\ UNCHANGED sumVars

\* lines 17-19: the GIL is released and the team of T threads is formed;
\* each member receives its chunk of range(height)
Dispatch(T, s) ==
    /\ pc = "entered"
    /\ nthreads' = T
    /\ lo' = [t \in Workers |->
                 IF t <= T THEN StaticChunk(s, height, T, t - 1)[1] ELSE 0]
    /\ hi' = [t \in Workers |->
                 IF t <= T THEN StaticChunk(s, height, T, t - 1)[2] ELSE 0]
    /\ y' = lo'
    /\ x' = NoChunks
    /\ pc' = "parallel"
    /\ UNCHANGED <<source_image, srcShape, dest_image, dstShape, height, width,
                   result, writes, writers, outside, corrupt, source0, dest0,
                   prev>>
    /\ UNCHANGED sumVars

\* the loop headers of lines 19-20 after one pixel: next column, or next row
Advance(t) ==
    IF x[t] + 1 < width
    THEN /\ x' = [x EXCEPT ![t] = @ + 1]
         /\ y' = y
    ELSE /\ x' = [x EXCEPT ![t] = 0]
         /\ y' = [y EXCEPT ![t] = @ + 1]

Running(t) ==
    /\ pc = "parallel"
    /\ t <= nthreads
    /\ y[t] < hi[t]

\* lines 22-26, the store lands inside the destination buffer
Store(t) ==
    /\ Running(t)
    /\ width > 0
    /\ LET off == DestOffset(y[t], x[t])
       IN  /\ off < DestSize
           /\ dest_image' = StoreAt(dest_image, off,
                                GrayValue(source_image[SrcIndex(y[t], x[t])]))
           /\ writes' = [writes EXCEPT ![off] = @ + 1]
           /\ writers' = [writers EXCEPT ![off] = @ \cup {t}]
    /\ outside' = (outside \/ ~InExtent(y[t], x[t]))
    /\ Advance(t)
    /\ UNCHANGED <<source_image, srcShape, dstShape, height, width, pc, result,
                   nthreads, lo, hi, corrupt, source0, dest0, prev>>
    /\ UNCHANGED sumVars

\* lines 22-26 with the store past the end of the destination buffer: the
\* behaviour is undefined.  The three actions are the immediate outcomes of
\* such a store; what the process does afterwards is undefined as well and
\* is followed no further.  Here the byte belongs to the source buffer,
\* allocated right behind the destination.
StoreHitsSource(t) ==
    /\ Running(t)
    /\ width > 0
    /\ LET off == DestOffset(y[t], x[t])
           b   == off - DestSize
       IN  /\ off >= DestSize
           /\ b < 3 * SrcSize
           /\ source_image' =
                 [source_image EXCEPT ![b \div 3][(b % 3) + 1] =
                     GrayValue(source_image[SrcIndex(y[t], x[t])])]
    /\ outside' = TRUE
    /\ pc' = "undefined"
    /\ UNCHANGED <<srcShape, dest_image, dstShape, height, width, result,
                   nthreads, lo, hi, y, x, writes, writers, corrupt, source0, dest0,
                   prev>>
    /\ UNCHANGED sumVars

\* ... here the byte belongs to some other object of the process
StoreHitsOther(t) ==
    /\ Running(t)
    /\ width > 0
    /\ DestOffset(y[t], x[t]) >= DestSize
    /\ corrupt' = TRUE
    /\ outside' = TRUE
    /\ pc' = "undefined"
    /\ UNCHANGED <<source_image, srcShape, dest_image, dstShape, height, width,
                   result, nthreads, lo, hi, y, x, writes, writers, source0,
                   dest0, prev>>
    /\ UNCHANGED sumVars

\* ... and here the address is unmapped and the process dies
StoreCrashes(t) ==
    /\ Running(t)
    /\ width > 0
    /\ DestOffset(y[t], x[t]) >= DestSize
    /\ pc' = "crashed"
    /\ outside' = TRUE
    /\ UNCHANGED <<source_image, srcShape, dest_image, dstShape, height, width,
                   result, nthreads, lo, hi, y, x, writes, writers, corrupt,
                   source0, dest0, prev>>
    /\ UNCHANGED sumVars

\* line 20 with width = 0: the inner loop has no iteration
EmptyRow(t) ==
    /\ Running(t)
    /\ width = 0
    /\ y' = [y EXCEPT ![t] = @ + 1]
    /\ UNCHANGED <<source_image, srcShape, dest_image, dstShape, height, width,
                   pc, result, nthreads, lo, hi, x, writes, writers, outside,
                   corrupt, source0, dest0, prev>>
    /\ UNCHANGED sumVars

\* the end of the parallel region and of the function: all members have
\* finished, the GIL is taken again and None is returned
Return ==
    /\ pc = "parallel"
    /\ AllDone
    /\ pc' = "returned"
    /\ result' = "None"
    /\ UNCHANGED <<source_image, srcShape, dest_image, dstShape, height, width,
                   nthreads, lo, hi, y, x, writes, writers, outside, corrupt,
                   source0, dest0, prev>>
    /\ UNCHANGED sumVars

\* the caller keeps the result and converts the same source a second time
\* into a fresh destination of the same shape
NextCall(fill) ==
    /\ pc = "returned"
    /\ prev = <<>>
    /\ prev' = [out |-> dest_image, dest0 |-> dest0, serial |-> nthreads = 1]
    /\ dest_image' = FilledBuffer(DestSize, fill)
    /\ height' = 0
    /\ width' = 0
    /\ pc' = "idle"
    /\ result' = "pending"
    /\ nthreads' = 0
    /\ lo' = NoChunks
    /\ hi' = NoChunks
    /\ y' = NoChunks
    /\ x' = NoChunks
    /\ writes' = [k \in DOMAIN dest_image |-> 0]
    /\ writers' = [k \in DOMAIN dest_image |-> {}]
    /\ outside' = FALSE
    /\ UNCHANGED <<source_image, srcShape, dstShape, corrupt, source0, dest0>>
    /\ UNCHANGED sumVars

Next ==
    \/ Enter
    \/ \E T \in 1..MaxThreads, s \in {"balanced", "greedy"} : Dispatch(T, s)
    \/ \E t \in Workers : Store(t)
    \/ \E t \in Workers : StoreHitsSource(t)
    \/ \E t \in Workers : StoreHitsOther(t)
    \/ \E t \in Workers : StoreCrashes(t)
    \/ \E t \in Workers : EmptyRow(t)
    \/ Return
    \/ \E fill \in Fills : NextCall(fill)

Spec == Init /\ [][Next]_vars

\* ------------------------------------------------------------------------
\* sum_of_squares
\* ------------------------------------------------------------------------

\* the largest value of a C int
IntMax == 2147483647

\* v * v, exactly, for 0 <= v <= IntMax: v times each of its four bytes
Square(v) ==
    LET a  == ToBig(v)
        b3 == v \div 2^24
        b2 == (v \div 2^16) % 256
        b1 == (v \div 2^8) % 256
        b0 == v % 256
        h3 == BigMulSmall(a, b3)
        h2 == BigAdd(BigMulSmall(h3, 256), BigMulSmall(a, b2))
        h1 == BigAdd(BigMulSmall(h2, 256), BigMulSmall(a, b1))
    IN  BigAdd(BigMulSmall(h1, 256), BigMulSmall(a, b0))

\* the low 32 bits of a read as a C int and widened to long long
\* (two's complement: a negative int fills the upper 32 bits with ones)
SignExtend32(a) ==
    IF a[2] >= 2^15 THEN <<a[1], a[2], Base - 1, Base - 1>>
                    ELSE <<a[1], a[2], 0, 0>>

\* i * i does not fit a C int
SquareOverflows(v) == v > IntMax \div v

SumInit ==
    /\ GrayInit({<<0, 0>>}, {0}, {0})
    /\ n \in SumInputs
    /\ i = 1
    /\ total = BigZero
    /\ spc = "idle"
    /\ boundWrapped = FALSE
    /\ overflowed = FALSE

\* lines 4-11: total = 0 and the loop bound n + 1, which fits a C int
SumEnter ==
    /\ spc = "idle"
    /\ n < IntMax
    /\ total' = BigZero
    /\ i' = 1
    /\ spc' = "loop"
    /\ UNCHANGED <<n, boundWrapped, overflowed>>
    /\ UNCHANGED grayVars

\* lines 4-11 with n = INT_MAX: n + 1 overflows, which is undefined.  The
\* bound either wraps to INT_MIN or is kept in a wider register.
SumEnterOverflow(wraps) ==
    /\ spc = "idle"
    /\ n = IntMax
    /\ total' = BigZero
    /\ i' = 1
    /\ boundWrapped' = wraps
    /\ overflowed' = TRUE
    /\ spc' = "loop"
    /\ UNCHANGED n
    /\ UNCHANGED grayVars

\* the loop condition of line 11: i < n + 1
InLoop ==
    /\ spc = "loop"
    /\ ~boundWrapped
    /\ i <= n
    /\ i <= LoopCap

\* line 12, the product fits a C int
SumStep ==
    /\ InLoop
    /\ ~SquareOverflows(i)
    /\ total' = Wrap64(BigAdd(total, ToBig(i * i)))
    /\ i' = i + 1
    /\ UNCHANGED <<n, spc, boundWrapped, overflowed>>
    /\ UNCHANGED grayVars

\* line 12, the int product overflows, which is undefined: it either wraps
\* to 32 bits or is computed in a wider register
SumStepOverflow(wraps) ==
    /\ InLoop
    /\ SquareOverflows(i)
    /\ total' = Wrap64(BigAdd(total, IF wraps THEN SignExtend32(Square(i))
                                              ELSE Square(i)))
    /\ i' = i + 1
    /\ overflowed' = TRUE
    /\ UNCHANGED <<n, spc, boundWrapped>>
    /\ UNCHANGED grayVars

\* line 13: the loop is over and total is returned
SumReturn ==
    /\ spc = "loop"
    /\ (boundWrapped \/ i > n)
    /\ spc' = "returned"
    /\ UNCHANGED <<n, i, total, boundWrapped, overflowed>>
    /\ UNCHANGED grayVars

SumNext ==
    \/ SumEnter
    \/ \E wraps \in BOOLEAN : SumEnterOverflow(wraps)
    \/ SumStep
    \/ \E wraps \in BOOLEAN : SumStepOverflow(wraps)
    \/ SumReturn

SpecSum == SumInit /\ [][SumNext]_vars

\* ------------------------------------------------------------------------
\* Properties
\* ------------------------------------------------------------------------
Matching == srcShape = dstShape

Rows == 0..(height - 1)

Cols == 0..(width - 1)

Team == 1..nthreads

\* floor and remainder of the weighted sum taken in the reals
ExactFloor(p) == (299 * p[1] + 587 * p[2] + 114 * p[3]) \div 1000

ExactRem(p) == (299 * p[1] + 587 * p[2] + 114 * p[3]) % 1000

\* C1: with matching extents, when the call has returned every destination
\* pixel is the truncation of the double sum R*0.299 + G*0.587 + B*0.114 of
\* its own source pixel, whatever the team size: the truncation is taken
\* once, of the whole sum, which is the real floor of the sum except where
\* the real sum is an integer and the double sum falls just short of it;
\* (10, 20, 30) gives 18.
C1_PixelFormula ==
    (pc = "returned" /\ Matching) =>
        \A r \in Rows, c \in Cols :
            LET p == source0[SrcIndex(r, c)]
                v == dest_image[DestOffset(r, c)]
            IN  /\ v = TruncToInt(LumaSum(p))
                /\ \/ v = ExactFloor(p)
                   \/ ExactRem(p) = 0 /\ v = ExactFloor(p) - 1
                /\ (p = <<10, 20, 30>> => v = 18)

C1_Witness ==
    /\ pc = "returned"
    /\ Matching
    /\ nthreads >= 2
    /\ \E k \in DOMAIN dest_image :
          source0[k] = <<10, 20, 30>> /\ dest_image[k] = 18
    /\ \E k \in DOMAIN dest_image :
          source0[k] = <<0, 72, 24>> /\ dest_image[k] = 44

\* C2: a call whose destination extent differs from the source's never
\* returns success; what it hands back is the DimensionMismatch error.
C2_MismatchSignalled ==
    (pc = "returned" /\ ~Matching) => result = "DimensionMismatch"

\* C3: when the extents differ no destination element is ever written, the
\* destination keeps its pre-call contents, and no store uses an index
\* outside the destination's extent.
C3_MismatchLeavesDest ==
    ~Matching =>
        /\ dest_image = dest0
        /\ \A k \in DOMAIN dest_image : writes[k] = 0
        /\ ~outside

\* C4: with matching extents, at the return every team member has finished
\* its row range and every destination element has been stored to exactly
\* once.
C4_WrittenOnceAtReturn ==
    (pc = "returned" /\ Matching) =>
        /\ \A t \in Team : y[t] = hi[t]
        /\ \A k \in DOMAIN dest_image : writes[k] = 1

C4_Witness ==
    /\ pc = "returned"
    /\ Matching
    /\ nthreads >= 2
    /\ DestSize >= 4
    /\ \A t \in Team : hi[t] > lo[t]
    /\ \A k \in DOMAIN dest_image : writes[k] = 1

\* C5: with matching extents, in every interleaving a destination element is
\* stored to by at most one team member, the owner of its row, and by
\* exactly one once the call has returned; a member with rows left can
\* always take its next step (the guard of Store or of EmptyRow holds for
\* it), whatever the others are doing.
C5_OneWriterPerRow ==
    Matching =>
        /\ \A k \in DOMAIN dest_image :
              /\ Cardinality(writers[k]) <= 1
              /\ \A t \in writers[k] :
                    lo[t] <= k \div width /\ k \div width < hi[t]
              /\ pc = "returned" => Cardinality(writers[k]) = 1
        /\ \A t \in Workers :
              Running(t) => (width = 0 \/ DestOffset(y[t], x[t]) < DestSize)

C5_Witness ==
    /\ pc = "parallel"
    /\ Matching
    /\ \E t1 \in Team, t2 \in Team :
          /\ t1 # t2
          /\ Running(t1)
          /\ Running(t2)
          /\ \E k \in DOMAIN dest_image : writers[k] = {t1}
          /\ \E k \in DOMAIN dest_image : writers[k] = {t2}

\* C6: with matching extents, a second conversion of the same source into
\* another destination, with any prior contents and any team size, returns
\* a buffer identical to the first conversion's.
C6_SameSourceSameOutput ==
    (pc = "returned" /\ Matching /\ prev # <<>>) => dest_image = prev.out

C6_Witness ==
    /\ pc = "returned"
    /\ Matching
    /\ prev # <<>>
    /\ DestSize >= 2
    /\ prev.dest0 # dest0
    /\ prev.serial
    /\ nthreads >= 2
    /\ \A t \in Team : hi[t] > lo[t]
    /\ dest_image = prev.out

\* floor(a / d) for a small divisor d
BigDivSmall(a, d) ==
    LET q4 == a[4] \div d
        r4 == a[4] % d
        q3 == (r4 * Base + a[3]) \div d
        r3 == (r4 * Base + a[3]) % d
        q2 == (r3 * Base + a[2]) \div d
        r2 == (r3 * Base + a[2]) % d
        q1 == (r2 * Base + a[1]) \div d
    IN  <<q1, q2, q3, q4>>

\* the exact value of 1^2 + ... + m^2, as m(m+1)(2m+1)/6, for m <= 46340
SumOfSquaresClosed(m) ==
    LET a == ToBig(m * (m + 1))
        f == 2 * m + 1
        p == BigAdd(BigMulSmall(BigMulSmall(a, f \div 256), 256),
                    BigMulSmall(a, f % 256))
    IN  BigDivSmall(p, 6)

\* C7: sum_of_squares(n) returns 1^2 + ... + n^2 for every n >= 0, and no
\* C int computation on the way (i * i, n + 1) overflows.
C7_ExactSum ==
    spc = "returned" => (~overflowed /\ total = SumOfSquaresClosed(n))

\* C8: the source image has, in every state, the contents it had when the
\* call began.
C8_SourceUnchanged == source_image = source0

\* C9: with matching extents, every value stored is the truncated sum
\* itself, which lies in 0..255: the store into the unsigned char changes
\* nothing; and an all-zero image gives an all-zero output.
C9_StoredInRange ==
    Matching =>
        /\ \A k \in DOMAIN dest_image :
              writes[k] > 0 =>
                  /\ TruncToInt(LumaSum(source0[k])) \in 0..255
                  /\ dest_image[k] = TruncToInt(LumaSum(source0[k]))
        /\ (pc = "returned" /\ \A k \in DOMAIN source0 : source0[k] = <<0, 0, 0>>)
              => \A k \in DOMAIN dest_image : dest_image[k] = 0

C9_Witness ==
    /\ pc = "returned"
    /\ Matching
    /\ \E k \in DOMAIN dest_image :
          source0[k] = <<255, 255, 255>> /\ dest_image[k] = 255
    /\ \E k \in DOMAIN dest_image :
          source0[k] = <<0, 0, 0>> /\ dest_image[k] = 0 /\ dest0[k] # 0

\* the chunks of a formed team: intervals of [0, height) such that every
\* row lies in exactly one of them
C10_Partitioned ==
    pc \in {"parallel", "returned"} =>
        /\ \A t \in Team : 0 <= lo[t] /\ lo[t] <= hi[t] /\ hi[t] <= height
        /\ \A t \in Team : lo[t] <= y[t] /\ y[t] <= hi[t]
        /\ \A r \in Rows :
              Cardinality({t \in Team : lo[t] <= r /\ r < hi[t]}) = 1

\* nothing is stored before the team and its chunks exist
C10_SplitFirst ==
    pc \in {"idle", "entered"} => \A k \in DOMAIN dest_image : writes[k] = 0

\* an image without rows: the call succeeds and stores nothing
C10_NoRows ==
    (pc = "returned" /\ height = 0) =>
        /\ result = "None"
        /\ dest_image = dest0
        /\ \A k \in DOMAIN dest_image : writes[k] = 0

\* while the region runs, the team and the chunks stay as they are
C10_Fixed ==
    pc = "parallel" => (lo' = lo /\ hi' = hi /\ nthreads' = nthreads)

\* C10: the rows [0, height) are split, before any store, into one
\* contiguous chunk per team member; the chunks are pairwise disjoint and
\* cover every row exactly once, for every height (also 0, and heights
\* below the team size), and do not change while the region runs.
C10_StaticPartition ==
    /\ [](C10_Partitioned /\ C10_SplitFirst /\ C10_NoRows)
    /\ [][C10_Fixed]_vars

C10_Witness ==
    /\ pc = "returned"
    /\ height >= 1
    /\ width >= 1
    /\ nthreads > height
    /\ \E t \in Team : lo[t] = hi[t]
    /\ \A k \in DOMAIN dest_image : writes[k] >= 1

====
